---- MODULE Spec2Model ----
(***************************************************************************)
(* Model of the nightly-price core: PriceProcessor.extrapolate_prices_     *)
(* backward, PriceProcessor.calculate_total_price and                      *)
(* PriceProcessor.find_improved_matches, and of the analyses               *)
(* PriceAnalyzer.analyze_event_patterns, PriceAnalyzer.detect_seasonal_    *)
(* patterns and PriceProcessor.analyze_event_patterns, driven in the order *)
(* of NightlyPriceAnalysis.run and of the dashboard.                       *)
(*                                                                         *)
(* A calendar date is the number of days since 2024-01-01 (a Monday), so   *)
(* pandas' dayofweek (Monday = 0) is the date modulo 7.  A numeric cell is *)
(* an exact rational [num, den]; den = 0 is NaN (a missing value).  A      *)
(* DataFrame is [cols, rows]: the set of its column names and the sequence *)
(* of its rows; a row carries NaN (FALSE for a flag) in a column its       *)
(* DataFrame does not have.  multiunit_id is an opaque key; it is a small  *)
(* integer here so that sort_values can order it.                          *)
(***************************************************************************)
EXTENDS Integers, Sequences, FiniteSets

VARIABLES combined_df, arg_before, arg_after, result, calls

vars == <<combined_df, arg_before, arg_after, result, calls>>

-----------------------------------------------------------------------------
(* Calendar: pd.Timestamp, pd.Timedelta(days=n), pd.DateOffset(years=n).   *)

IsLeap(y) == (y % 4 = 0 /\ y % 100 # 0) \/ y % 400 = 0

LeapsBefore(y) == ((y - 1) \div 4) - ((y - 1) \div 100) + ((y - 1) \div 400)

YearStart(y) == 365 * (y - 2024) + LeapsBefore(y) - LeapsBefore(2024)

DaysInMonth(y, m) ==
    IF m = 2 THEN (IF IsLeap(y) THEN 29 ELSE 28)
    ELSE IF m \in {4, 6, 9, 11} THEN 30 ELSE 31

RECURSIVE DaysBeforeMonth(_, _)
DaysBeforeMonth(y, m) ==
    IF m = 1 THEN 0 ELSE DaysBeforeMonth(y, m - 1) + DaysInMonth(y, m - 1)

Timestamp(y, m, d) == YearStart(y) + DaysBeforeMonth(y, m) + (d - 1)

YearOf(n) == CHOOSE y \in 2020..2030 : YearStart(y) <= n /\ n < YearStart(y + 1)

\* the days from the start of n's year to n
DayOfYear(n) == n - YearStart(YearOf(n))

\* the month of year y that holds the day k days into the year
MonthIn(y, k) ==
    CHOOSE m \in 1..12 :
        DaysBeforeMonth(y, m) <= k /\ k < DaysBeforeMonth(y, m) + DaysInMonth(y, m)

MonthOf(n) == MonthIn(YearOf(n), DayOfYear(n))

DayOf(n) == DayOfYear(n) - DaysBeforeMonth(YearOf(n), MonthOf(n)) + 1

\* year y, month m, day d, the day clipped to the length of the month
ClippedDate(y, m, d) ==
    Timestamp(y, m, IF d > DaysInMonth(y, m) THEN DaysInMonth(y, m) ELSE d)

\* date + pd.DateOffset(years=k): same month and day, the day clipped to the
\* length of the month (Feb 29 becomes Feb 28 in a common year).
DateOffsetYears(n, k) == ClippedDate(YearOf(n) + k, MonthOf(n), DayOf(n))

dayofweek(n) == n % 7

AbsDays(a, b) == IF a >= b THEN a - b ELSE b - a

-----------------------------------------------------------------------------
(* Numeric cells: exact rationals, NaN propagating as in numpy.             *)

NaN == [num |-> 0, den |-> 0]

isna(x) == x.den = 0

RECURSIVE GCD(_, _)
GCD(a, b) == IF b = 0 THEN a ELSE GCD(b, a % b)

Abs(i) == IF i < 0 THEN -i ELSE i

Rat(n, d) ==
    LET g == GCD(Abs(n), d)
    IN  [num |-> n \div g, den |-> d \div g]

Num(i) == [num |-> i, den |-> 1]

Add(a, b) ==
    IF isna(a) \/ isna(b) THEN NaN
    ELSE Rat(a.num * b.den + b.num * a.den, a.den * b.den)

Sub(a, b) ==
    IF isna(a) \/ isna(b) THEN NaN
    ELSE Rat(a.num * b.den - b.num * a.den, a.den * b.den)

Mul(a, b) ==
    IF isna(a) \/ isna(b) THEN NaN
    ELSE Rat(a.num * b.num, a.den * b.den)

\* a <= b, FALSE when either side is NaN
Le(a, b) == ~isna(a) /\ ~isna(b) /\ a.num * b.den <= b.num * a.den

\* a > b, FALSE when either side is NaN
Gt(a, b) == ~isna(a) /\ ~isna(b) /\ a.num * b.den > b.num * a.den

RAbs(a) == IF isna(a) THEN NaN ELSE [num |-> Abs(a.num), den |-> a.den]

-----------------------------------------------------------------------------
(* DataFrames of price rows.                                                *)

FactorCols == {"base", "seasonality", "dow", "event"}

\* the value a row holds in column c
Cell(r, c) ==
    CASE c = "base" -> r.base
      [] c = "seasonality" -> r.seasonality
      [] c = "dow" -> r.dow
      [] c = "event" -> r.event
      [] c = "price" -> r.price
      [] c = "total_price" -> r.total_price

\* pd.DataFrame(): no columns, no rows
EmptyFrame == [cols |-> {}, rows |-> <<>>]

\* Series.max() where Series.min() is meant
SeqMax(s) ==
    LET S == {s[i] : i \in 1..Len(s)}
    IN  CHOOSE m \in S : \A x \in S : x <= m

\* Series.min() of a non-empty sequence of dates
SeqMin(s) ==
    LET S == {s[i] : i \in 1..Len(s)}
    IN  CHOOSE m \in S : \A x \in S : m <= x

Dates(rows) == [i \in 1..Len(rows) |-> rows[i].date]

\* df['multiunit_id'].unique(): the ids in order of first appearance
unique(rows) ==
    LET first == {i \in 1..Len(rows) :
                    \A j \in 1..(i - 1) : rows[j].multiunit_id # rows[i].multiunit_id}
        RECURSIVE Build(_)
        Build(k) ==
            IF k > Len(rows) THEN <<>>
            ELSE IF k \in first THEN <<rows[k].multiunit_id>> \o Build(k + 1)
            ELSE Build(k + 1)
    IN  Build(1)

\* the sort order: by date alone, or by multiunit_id and then date
Before(a, b, byId) ==
    IF byId
    THEN \/ a.multiunit_id < b.multiunit_id
         \/ a.multiunit_id = b.multiunit_id /\ a.date < b.date
    ELSE a.date < b.date

RECURSIVE Insert(_, _, _)
Insert(sorted, r, byId) ==
    IF sorted = <<>> THEN <<r>>
    ELSE IF Before(r, sorted[Len(sorted)], byId)
         THEN Insert(SubSeq(sorted, 1, Len(sorted) - 1), r, byId)
                  \o <<sorted[Len(sorted)]>>
         ELSE sorted \o <<r>>

RECURSIVE StableSort(_, _)
\* a stable sort: a row moves in front of the rows already placed only when
\* it is strictly smaller
StableSort(rows, byId) ==
    IF rows = <<>> THEN <<>>
    ELSE Insert(StableSort(SubSeq(rows, 1, Len(rows) - 1), byId),
                rows[Len(rows)], byId)

\* group.sort_values('date')
sort_by_date(rows) == StableSort(rows, FALSE)

\* combined_df.sort_values(['multiunit_id', 'date'])
sort_by_id_date(rows) == StableSort(rows, TRUE)

RECURSIVE Ascending(_)
\* the dates of a set in calendar order
Ascending(S) ==
    IF S = {} THEN <<>>
    ELSE LET m == CHOOSE x \in S : \A y \in S : x <= y
         IN  <<m>> \o Ascending(S \ {m})

RECURSIVE SumCells(_)
SumCells(s) == IF s = <<>> THEN Num(0) ELSE Add(s[1], SumCells(Tail(s)))

\* Series.mean(): the mean of the values that are not NaN, NaN when there is none
mean(cells) ==
    LET present == SelectSeq(cells, LAMBDA x : ~isna(x))
    IN  IF present = <<>> THEN NaN
        ELSE Mul(SumCells(present), Rat(1, Len(present)))

-----------------------------------------------------------------------------
(* PriceProcessor.extrapolate_prices_backward                               *)

\* the cutoff typed a year early
target_start_date_2023 == Timestamp(2023, 1, 1)

target_start_date == Timestamp(2024, 1, 1)

\* the dates the model's calendar tables cover
CalendarDays == Timestamp(2022, 1, 1) .. Timestamp(2028, 12, 31)

\* missing_date + pd.DateOffset(years=1)
YearLater == [n \in CalendarDays |-> DateOffsetYears(n, 1)]

\* the 3% discount against the following year
Discount == Rat(97, 100)

\* df['date'].min() <= target_start_date; the minimum of no dates is NaT,
\* which compares FALSE
starts_on_or_before_target(rows) ==
    rows # <<>> /\ SeqMin(Dates(rows)) <= target_start_date

\* group = df[df['multiunit_id'] == multiunit_id].sort_values('date')
group_of(rows, multiunit_id) ==
    sort_by_date(SelectSeq(rows, LAMBDA r : r.multiunit_id = multiunit_id))

\* the latest date of the group taken for its earliest
group_latest_date(group) == SeqMax(Dates(group))

group_earliest_date(group) == SeqMin(Dates(group))

\* the date range running through the earliest date itself
missing_dates_through_earliest(group) ==
    IF group_earliest_date(group) > target_start_date
    THEN target_start_date .. group_earliest_date(group)
    ELSE {}

\* pd.date_range(target_start_date, group_earliest_date - 1 day), guarded by
\* group_earliest_date > target_start_date
missing_dates(group) ==
    IF group_earliest_date(group) > target_start_date
    THEN target_start_date .. (group_earliest_date(group) - 1)
    ELSE {}

\* the records on or after future_date taken for the exact match
later_future_match(group, future_date) ==
    SelectSeq(group, LAMBDA r : r.date >= future_date)

\* group[group['date'] == future_date]
exact_future_match(group, future_date) ==
    SelectSeq(group, LAMBDA r : r.date = future_date)

\* the rows of the group on future_date's weekday, at most 14 days from it
same_weekday_dates(group, future_date) ==
    SelectSeq(group, LAMBDA r :
        /\ dayofweek(r.date) = dayofweek(future_date)
        /\ r.date >= future_date - 14
        /\ r.date <= future_date + 14)

BlankRow ==
    [multiunit_id |-> 0, date |-> 0, base |-> NaN, seasonality |-> NaN,
     dow |-> NaN, event |-> NaN, price |-> NaN, total_price |-> NaN,
     is_extrapolated |-> "NaN"]

\* the local variable closest_date before its first assignment
Unbound == [bound |-> FALSE, row |-> BlankRow]

\* lines 82-91: the factor columns copied from the row of future_date
copied_factors(cols, exact) ==
    {c \in {"event", "seasonality", "base"} : exact # <<>> /\ c \in cols}

\* new_row[c] for a copied factor, NaN for a key new_row does not have
copied_value(copied, exact, c) == IF c \in copied THEN Cell(exact[1], c) ELSE NaN

\* the dow of the first same-weekday record, however many there are
first_weekday_dow(same) == same[1].dow

\* lines 103-109: new_row['dow']
weekday_dow(same) ==
    IF Len(same) >= 2
    THEN mean([i \in 1..Len(same) |-> same[i].dow])
    ELSE same[1].dow

\* The local closest_date after lines 103-109: assigned only on the branch
\* of a single same-weekday row, otherwise what an earlier iteration left.
closest_date_after(acc, same) ==
    IF Len(same) >= 2 THEN acc.closest_date
    ELSE [bound |-> TRUE, row |-> same[1]]

\* line 111: all(k in new_row for k in ['base', 'seasonality', 'dow', 'event'])
all_factors(copied) == copied = {"event", "seasonality", "base"}

\* line 114 taken: 'price' in closest_date and not pd.isna(closest_date['price'])
from_closest(cols, copied, closest_date) ==
    /\ ~all_factors(copied)
    /\ closest_date.bound
    /\ "price" \in cols
    /\ ~isna(closest_date.row.price)

\* lines 111-116: new_row['price'], NaN when neither branch assigns it
extrapolated_price(cols, copied, exact, dow, closest_date) ==
    IF all_factors(copied)
    THEN Mul(Add(Add(Add(exact[1].base, exact[1].seasonality), dow),
                 exact[1].event), Discount)
    ELSE IF from_closest(cols, copied, closest_date)
    THEN Mul(closest_date.row.price, Discount)
    ELSE NaN

\* the dictionary new_row at line 118
new_row(cols, multiunit_id, missing_date, copied, exact, dow, closest_date) ==
    [multiunit_id |-> multiunit_id, date |-> missing_date,
     base |-> copied_value(copied, exact, "base"),
     seasonality |-> copied_value(copied, exact, "seasonality"),
     dow |-> dow,
     event |-> copied_value(copied, exact, "event"),
     price |-> extrapolated_price(cols, copied, exact, dow, closest_date),
     total_price |-> NaN,
     is_extrapolated |-> "True"]

\* the keys of new_row besides multiunit_id, date and is_extrapolated
new_row_keys(cols, copied, closest_date) ==
    copied \cup {"dow"}
        \cup (IF all_factors(copied) \/ from_closest(cols, copied, closest_date)
              THEN {"price"} ELSE {})

\* lines 111-118: reading the unassigned closest_date at line 114 raises
\* UnboundLocalError, which the except clause of line 119 does not catch
append_new_row(acc, cols, id, missing_date, copied, exact, dow, closest_date) ==
    IF ~all_factors(copied) /\ ~closest_date.bound
    THEN [acc EXCEPT !.raised = TRUE]
    ELSE [data |-> Append(acc.data,
                     [row |-> new_row(cols, id, missing_date, copied, exact, dow,
                                      closest_date),
                      keys |-> new_row_keys(cols, copied, closest_date)]),
          closest_date |-> closest_date,
          raised |-> FALSE]

\* lines 82-118 for a missing date, its exact_future_match and its non-empty
\* same_weekday_dates
extrapolate_date(acc, cols, multiunit_id, missing_date, exact, same) ==
    append_new_row(acc, cols, multiunit_id, missing_date,
                   copied_factors(cols, exact), exact, weekday_dow(same),
                   closest_date_after(acc, same))

\* One pass of the loop body for a missing date whose same_weekday_dates is
\* not empty (lines 71-121).  acc carries extrapolated_data, the local
\* closest_date, which outlives the iteration that set it, and whether an
\* UnboundLocalError has escaped.
process_missing_date(acc, cols, multiunit_id, group, missing_date) ==
    IF acc.raised THEN acc
    ELSE extrapolate_date(acc, cols, multiunit_id, missing_date,
                          exact_future_match(group, YearLater[missing_date]),
                          same_weekday_dates(group, YearLater[missing_date]))

RECURSIVE process_dates(_, _, _, _, _)
process_dates(acc, cols, multiunit_id, group, dates) ==
    IF dates = <<>> THEN acc
    ELSE process_dates(
            process_missing_date(acc, cols, multiunit_id, group, dates[1]),
            cols, multiunit_id, group, Tail(dates))

\* the missing dates of a group for which line 100 holds, in date_range order
dates_with_weekday_match(cols, group) ==
    IF "dow" \in cols
    THEN Ascending({d \in missing_dates(group) :
                        same_weekday_dates(group, YearLater[d]) # <<>>})
    ELSE <<>>

RECURSIVE process_groups(_, _, _)
\* for multiunit_id in unique_multiunit_ids
process_groups(acc, d, ids) ==
    IF ids = <<>> THEN acc
    ELSE process_groups(
            process_dates(acc, d.cols, ids[1], group_of(d.rows, ids[1]),
                          dates_with_weekday_match(d.cols, group_of(d.rows, ids[1]))),
            d, Tail(ids))

extrapolated_data(d) ==
    process_groups([data |-> <<>>, closest_date |-> Unbound, raised |-> FALSE],
                   d, unique(d.rows))

\* the extrapolated rows returned without the original ones
combine_without_original(d, data) ==
    [cols |-> d.cols \cup {"multiunit_id", "date", "is_extrapolated"}
                \cup UNION {data[i].keys : i \in 1..Len(data)},
     rows |-> sort_by_id_date([i \in 1..Len(data) |-> data[i].row])]

\* pd.concat([df, pd.DataFrame(extrapolated_data)]), the flag filled in on the
\* original rows, sorted by multiunit_id and date
combine(d, data) ==
    LET new_cols == {"multiunit_id", "date", "is_extrapolated"}
                        \cup UNION {data[i].keys : i \in 1..Len(data)}
        filled == [i \in 1..Len(d.rows) |->
                     IF "is_extrapolated" \notin d.cols
                     THEN [d.rows[i] EXCEPT !.is_extrapolated = "False"]
                     ELSE d.rows[i]]
        added == [i \in 1..Len(data) |-> data[i].row]
    IN  [cols |-> d.cols \cup new_cols, rows |-> sort_by_id_date(filled \o added)]

\* df['is_extrapolated'] = False, assigned in place when the column is absent
with_flag_column(d) ==
    IF "is_extrapolated" \in d.cols THEN d
    ELSE [cols |-> d.cols \cup {"is_extrapolated"},
          rows |-> [i \in 1..Len(d.rows) |->
                        [d.rows[i] EXCEPT !.is_extrapolated = "False"]]]

\* lines 123-144: what the call returns once the loops are over
extrapolation_result(d, run) ==
    IF run.raised
    THEN [status |-> "raised", value |-> EmptyFrame, arg |-> d]
    ELSE IF run.data # <<>>
    THEN [status |-> "returned", value |-> combine(d, run.data), arg |-> d]
    ELSE [status |-> "returned", value |-> with_flag_column(d),
          arg |-> with_flag_column(d)]

\* The call: what it returns (or that it raised) and the argument object as
\* the call leaves it.
\* df['date'] at line 34 raises KeyError on a frame without that column.
extrapolate_prices_backward(d) ==
    IF "date" \notin d.cols
    THEN [status |-> "raised", value |-> EmptyFrame, arg |-> d]
    ELSE IF starts_on_or_before_target(d.rows)
    THEN [status |-> "returned", value |-> d, arg |-> d]
    ELSE extrapolation_result(d, extrapolated_data(d))

-----------------------------------------------------------------------------
(* PriceProcessor.calculate_total_price                                     *)

\* total_price summed over every numeric column of the row, an earlier
\* total_price included
calculate_total_price_accumulating(d) ==
    LET factor(r, c) == IF c \in d.cols THEN Cell(r, c) ELSE Num(0)
        total(r) ==
            LET b == factor(r, "base")
                s == factor(r, "seasonality")
                w == factor(r, "dow")
                e == factor(r, "event")
            IN  [r EXCEPT !.base = b, !.seasonality = s, !.dow = w, !.event = e,
                          !.total_price =
                              Add(Add(Add(Add(b, s), w), e), factor(r, "total_price"))]
    IN  [status |-> "returned",
         value |-> [cols |-> d.cols \cup FactorCols \cup {"total_price"},
                    rows |-> [i \in 1..Len(d.rows) |-> total(d.rows[i])]],
         arg |-> d]

\* result_df[col] = 0 for every factor column the frame lacks, then
\* total_price = base + seasonality + dow + event, row by row
calculate_total_price(d) ==
    LET factor(r, c) == IF c \in d.cols THEN Cell(r, c) ELSE Num(0)
        total(r) ==
            LET b == factor(r, "base")
                s == factor(r, "seasonality")
                w == factor(r, "dow")
                e == factor(r, "event")
            IN  [r EXCEPT !.base = b, !.seasonality = s, !.dow = w, !.event = e,
                          !.total_price = Add(Add(Add(b, s), w), e)]
    IN  [status |-> "returned",
         value |-> [cols |-> d.cols \cup FactorCols \cup {"total_price"},
                    rows |-> [i \in 1..Len(d.rows) |-> total(d.rows[i])]],
         arg |-> d]

-----------------------------------------------------------------------------
(* PriceProcessor.find_improved_matches                                     *)

start_date == Timestamp(2025, 1, 1)

end_date == Timestamp(2026, 3, 31)

past_date_limit == Timestamp(2025, 4, 21)

\* the date itself taken for the date one year earlier
NoYearEarlier == [n \in CalendarDays |-> n]

\* one year taken for 365 days
Days365Earlier == [n \in CalendarDays |-> n - 365]

\* future_date - pd.DateOffset(years=1)
YearEarlier == [n \in CalendarDays |-> DateOffsetYears(n, -1)]

\* the price of the match carried over as it is
NoUplift == Num(1)

\* the 3% year-over-year growth
Uplift == Rat(103, 100)

\* every row taken for a target date
target_dates_unfiltered(rows) == rows

\* df[(df['date'] >= start_date) & (df['date'] <= end_date)]
target_dates(rows) ==
    SelectSeq(rows, LAMBDA r : r.date >= start_date /\ r.date <= end_date)

\* every row taken for a past date
past_data_unfiltered(rows) == rows

\* df[df['date'] < past_date_limit]
past_data(rows) == SelectSeq(rows, LAMBDA r : r.date < past_date_limit)

\* past_data[past_data['multiunit_id'] == multiunit_id]
past_group_of(past, multiunit_id) ==
    SelectSeq(past, LAMBDA r : r.multiunit_id = multiunit_id)

\* no event counted as significant
never_significant(future_row) == FALSE

\* future_event is not None and future_event > 1
has_significant_event(future_row) == Gt(future_row.event, Num(1))

\* past dates within 14 days of target_date whose event is within 20 of the
\* future date's
past_event_matches(past_group, target_date, future_event) ==
    SelectSeq(past_group, LAMBDA r :
        /\ AbsDays(r.date, target_date) <= 14
        /\ Le(RAbs(Sub(r.event, future_event)), Num(20)))

\* past dates on target_date's weekday within `days` of it, with no event or
\* an event of at most 10
past_dow_matches(past_group, target_date, days) ==
    SelectSeq(past_group, LAMBDA r :
        /\ AbsDays(r.date, target_date) <= days
        /\ dayofweek(r.date) = dayofweek(target_date)
        /\ (isna(r.event) \/ Le(r.event, Num(10))))

\* past dates within 14 days of target_date
closest_dates(past_group, target_date) ==
    SelectSeq(past_group, LAMBDA r : AbsDays(r.date, target_date) <= 14)

\* the last candidate at the least distance
closest_of_last(candidates, target_date) ==
    LET i == CHOOSE k \in 1..Len(candidates) :
                /\ \A j \in 1..Len(candidates) :
                      AbsDays(candidates[k].date, target_date)
                          <= AbsDays(candidates[j].date, target_date)
                /\ \A j \in (k + 1)..Len(candidates) :
                      AbsDays(candidates[j].date, target_date)
                          > AbsDays(candidates[k].date, target_date)
    IN  candidates[i].date

\* candidates.iloc[abs(candidates['date'] - target_date).argmin()]['date']:
\* the first candidate at the least distance
closest_of(candidates, target_date) ==
    LET i == CHOOSE k \in 1..Len(candidates) :
                /\ \A j \in 1..Len(candidates) :
                      AbsDays(candidates[k].date, target_date)
                          <= AbsDays(candidates[j].date, target_date)
                /\ \A j \in 1..(k - 1) :
                      AbsDays(candidates[j].date, target_date)
                          > AbsDays(candidates[k].date, target_date)
    IN  candidates[i].date

\* no date picked
NaT == 0 - 1000000

\* a tier's pick: the candidate closest to target_date
pick(candidates, target_date, reason) ==
    [date |-> closest_of(candidates, target_date), reason |-> reason]

\* the first tier with a candidate; reason "" when no tier has one,
\* "KeyError" when past_group['event'] is read from a frame without that
\* column
first_tier(has_event_column, target_date, by_event, by_dow14, by_dow21, closest) ==
    IF by_event # <<>> THEN pick(by_event, target_date, "event_match")
    ELSE IF by_dow14 # <<>>
    THEN pick(by_dow14, target_date, "weekday_match_no_event")
    ELSE IF ~has_event_column THEN [date |-> NaT, reason |-> "KeyError"]
    ELSE IF by_dow21 # <<>> THEN pick(by_dow21, target_date, "weekday_match")
    ELSE IF closest # <<>> THEN pick(closest, target_date, "closest_date")
    ELSE [date |-> NaT, reason |-> ""]

\* the candidates of each tier for a future row and its target_date
tiers(has_event_column, past_group, future_row, target_date) ==
    first_tier(has_event_column, target_date,
        IF has_event_column /\ has_significant_event(future_row)
        THEN past_event_matches(past_group, target_date, future_row.event)
        ELSE <<>>,
        IF has_event_column THEN past_dow_matches(past_group, target_date, 14)
        ELSE <<>>,
        past_dow_matches(past_group, target_date, 21),
        closest_dates(past_group, target_date))

\* The cascade of lines 205-270 for one future row: the date picked and the
\* tier that picked it.
best_match(has_event_column, past_group, future_row) ==
    tiers(has_event_column, past_group, future_row, YearEarlier[future_row.date])

\* the dictionary appended at lines 277-295
match_record(cols, future_row, best, matching_row, target_date) ==
    LET copy(c) == IF c \in cols /\ ~isna(Cell(matching_row, c))
                   THEN Cell(matching_row, c) ELSE NaN
    IN  [row |->
            [multiunit_id |-> future_row.multiunit_id,
             date |-> future_row.date,
             matched_from |-> best.date,
             days_diff |-> AbsDays(best.date, target_date),
             is_improved_match |-> TRUE,
             match_reason |-> best.reason,
             price |-> IF "price" \in cols THEN Mul(matching_row.price, Uplift)
                       ELSE NaN,
             base |-> copy("base"), seasonality |-> copy("seasonality"),
             dow |-> copy("dow"), event |-> copy("event"),
             event_match |-> "event" \in cols /\ best.reason = "event_match"],
         keys |-> (IF "price" \in cols THEN {"price"} ELSE {})
                    \cup {c \in FactorCols : c \in cols /\ ~isna(Cell(matching_row, c))}]

\* lines 272-295: the row emitted for a future row and its match
improved_match(cols, past_group, future_row, best) ==
    match_record(cols, future_row, best,
                 SelectSeq(past_group, LAMBDA r : r.date = best.date)[1],
                 YearEarlier[future_row.date])

\* one pass of the loop body: the match appended, if there is one
record_match(acc, cols, past_group, future_row, best) ==
    IF best.reason = "KeyError" THEN [acc EXCEPT !.raised = TRUE]
    ELSE IF best.reason = "" THEN acc
    ELSE [acc EXCEPT !.data =
            Append(@, improved_match(cols, past_group, future_row, best))]

RECURSIVE match_rows(_, _, _, _)
\* for _, future_row in future_group.iterrows()
match_rows(acc, cols, past_group, future_group) ==
    IF future_group = <<>> \/ acc.raised THEN acc
    ELSE match_rows(
            record_match(acc, cols, past_group, future_group[1],
                         best_match("event" \in cols, past_group, future_group[1])),
            cols, past_group, Tail(future_group))

\* a unit without past data matched like any other
match_group_unskipped(acc, cols, past_group, future_group) ==
    match_rows(acc, cols, past_group, future_group)

\* lines 194-198: a unit without past data is skipped
match_group(acc, cols, past_group, future_group) ==
    IF past_group = <<>> THEN acc
    ELSE match_rows(acc, cols, past_group, future_group)

RECURSIVE match_groups(_, _, _, _, _)
\* for multiunit_id, future_group in target_dates.groupby('multiunit_id')
match_groups(acc, cols, targets, past, ids) ==
    IF ids = <<>> \/ acc.raised THEN acc
    ELSE match_groups(
            match_group(acc, cols, past_group_of(past, ids[1]),
                        SelectSeq(targets, LAMBDA r : r.multiunit_id = ids[1])),
            cols, targets, past, Tail(ids))

\* the ids of the rows, ascending: the order groupby iterates in
group_keys(rows) == Ascending({rows[i].multiunit_id : i \in 1..Len(rows)})

improved_matches(d) ==
    match_groups([data |-> <<>>, raised |-> FALSE], d.cols, target_dates(d.rows),
                 past_data(d.rows), group_keys(target_dates(d.rows)))

\* pd.DataFrame(improved_matches), with event_match added when the input has
\* an event column
matches_frame(d, data) ==
    [cols |-> {"multiunit_id", "date", "matched_from", "days_diff",
               "is_improved_match", "match_reason"}
                 \cup UNION {data[i].keys : i \in 1..Len(data)}
                 \cup (IF "event" \in d.cols THEN {"event_match"} ELSE {}),
     rows |-> [i \in 1..Len(data) |-> data[i].row]]

\* lines 297-307: what the call returns once the loops are over
matches_result(d, run) ==
    IF run.raised
    THEN [status |-> "raised", value |-> EmptyFrame, arg |-> d]
    ELSE IF run.data # <<>>
    THEN [status |-> "returned", value |-> matches_frame(d, run.data), arg |-> d]
    ELSE [status |-> "returned", value |-> EmptyFrame, arg |-> d]

\* df['date'] at line 159 raises KeyError on a frame without that column
find_improved_matches(d) ==
    IF "date" \notin d.cols
    THEN [status |-> "raised", value |-> EmptyFrame, arg |-> d]
    ELSE IF target_dates(d.rows) = <<>> \/ past_data(d.rows) = <<>>
    THEN [status |-> "returned", value |-> EmptyFrame, arg |-> d]
    ELSE matches_result(d, improved_matches(d))

-----------------------------------------------------------------------------
(* PriceAnalyzer.detect_seasonal_patterns, PriceAnalyzer.analyze_event_     *)
(* patterns and PriceProcessor.analyze_event_patterns                       *)

\* a / b; no mean of the datasets below is 0, where pandas gives inf or NaN
Div(a, b) ==
    IF isna(a) \/ isna(b) \/ b.num <= 0 THEN NaN
    ELSE Rat(a.num * b.den, a.den * b.num)

\* a < b, FALSE when either side is NaN
Lt(a, b) == Gt(b, a)

\* Timestamp.day_name()
day_name(n) ==
    CASE dayofweek(n) = 0 -> "Monday"
      [] dayofweek(n) = 1 -> "Tuesday"
      [] dayofweek(n) = 2 -> "Wednesday"
      [] dayofweek(n) = 3 -> "Thursday"
      [] dayofweek(n) = 4 -> "Friday"
      [] dayofweek(n) = 5 -> "Saturday"
      [] dayofweek(n) = 6 -> "Sunday"

\* the English name of month m
MonthName(m) ==
    CASE m = 1 -> "January"
      [] m = 2 -> "February"
      [] m = 3 -> "March"
      [] m = 4 -> "April"
      [] m = 5 -> "May"
      [] m = 6 -> "June"
      [] m = 7 -> "July"
      [] m = 8 -> "August"
      [] m = 9 -> "September"
      [] m = 10 -> "October"
      [] m = 11 -> "November"
      [] m = 12 -> "December"

\* Timestamp.month_name()
month_name(n) == MonthName(MonthOf(n))

\* the columns the analyses read with df[...]
AnalysisCols == {"multiunit_id", "date", "price"}

PeakThreshold == Rat(11, 10)

LowThreshold == Rat(9, 10)

prices(rows) == [i \in 1..Len(rows) |-> rows[i].price]

ids_of(rows) == {rows[i].multiunit_id : i \in 1..Len(rows)}

of_unit(rows, id) == SelectSeq(rows, LAMBDA r : r.multiunit_id = id)

months_of(rows, id) == {MonthOf(r.date) : r \in {rows[i] : i \in {j \in 1..Len(rows) : rows[j].multiunit_id = id}}}

of_month(rows, id, m) == SelectSeq(of_unit(rows, id), LAMBDA r : MonthOf(r.date) = m)

\* df_copy.groupby(['multiunit_id', 'month'])['price'].mean()
monthly_avg(rows, id, m) == mean(prices(of_month(rows, id, m)))

\* the mean of a unit's monthly means where the mean of its prices is meant
property_avg_of_months(rows, id) ==
    mean([k \in 1..Cardinality(months_of(rows, id)) |->
            monthly_avg(rows, id, Ascending(months_of(rows, id))[k])])

\* df_copy.groupby('multiunit_id')['price'].mean()
property_avg(rows, id) == mean(prices(of_unit(rows, id)))

\* monthly_patterns['price'] / monthly_patterns['avg_price']
seasonal_index(price, avg_price) == Div(price, avg_price)

season_flags(id, m, price, avg_price, index) ==
    [multiunit_id |-> id, month |-> m, price |-> price, avg_price |-> avg_price,
     seasonal_index |-> index,
     is_peak_season |-> Gt(index, PeakThreshold),
     is_low_season |-> Lt(index, LowThreshold)]

merged_pattern(id, m, price, avg_price) ==
    season_flags(id, m, price, avg_price, seasonal_index(price, avg_price))

\* pd.merge(monthly_avg, property_avg, on='multiunit_id'), one row
monthly_pattern(rows, id, m) ==
    merged_pattern(id, m, monthly_avg(rows, id, m), property_avg(rows, id))

unit_patterns(rows, id, months) ==
    [k \in 1..Len(months) |-> monthly_pattern(rows, id, months[k])]

RECURSIVE monthly_patterns(_, _)
\* one row for each (multiunit_id, month) group, in the order of the keys
monthly_patterns(rows, ids) ==
    IF ids = <<>> THEN <<>>
    ELSE unit_patterns(rows, ids[1], Ascending(months_of(rows, ids[1])))
             \o monthly_patterns(rows, Tail(ids))

PatternCols ==
    {"multiunit_id", "month", "price", "avg_price", "seasonal_index",
     "is_peak_season", "is_low_season"}

\* PriceAnalyzer.detect_seasonal_patterns: df_copy['date'] and ['price'] raise
\* KeyError on a frame without these columns; the quarterly averages are
\* computed and dropped.
detect_seasonal_patterns(d) ==
    IF ~(AnalysisCols \subseteq d.cols)
    THEN [status |-> "raised", value |-> EmptyFrame, arg |-> d]
    ELSE [status |-> "returned",
          value |-> [cols |-> PatternCols,
                     rows |-> monthly_patterns(d.rows, Ascending(ids_of(d.rows)))],
          arg |-> d]

RECURSIVE InsertCell(_, _)
InsertCell(sorted, x) ==
    IF sorted = <<>> THEN <<x>>
    ELSE IF Gt(sorted[Len(sorted)], x)
         THEN InsertCell(SubSeq(sorted, 1, Len(sorted) - 1), x)
                  \o <<sorted[Len(sorted)]>>
         ELSE sorted \o <<x>>

RECURSIVE SortCells(_)
SortCells(cells) ==
    IF cells = <<>> THEN <<>>
    ELSE InsertCell(SortCells(SubSeq(cells, 1, Len(cells) - 1)), cells[Len(cells)])

present(cells) == SelectSeq(cells, LAMBDA x : ~isna(x))

HighPriceQuantile == Rat(9, 10)

\* the value at the fractional position pos of the sorted values, by linear
\* interpolation between its two neighbours
interpolate(sorted, lower, fraction) ==
    IF lower + 1 >= Len(sorted) THEN sorted[Len(sorted)]
    ELSE Add(sorted[lower + 1],
             Mul(fraction, Sub(sorted[lower + 2], sorted[lower + 1])))

at_position(sorted, pos) ==
    interpolate(sorted, pos.num \div pos.den, Sub(pos, Num(pos.num \div pos.den)))

\* Series.quantile(q): NaN values are skipped, NaN when there is none
quantile(cells, q) ==
    IF present(cells) = <<>> THEN NaN
    ELSE at_position(SortCells(present(cells)),
                     Mul(q, Num(Len(present(cells)) - 1)))

\* df_copy.groupby('multiunit_id')['price'].quantile(0.9)
high_price_threshold(rows, id) == quantile(prices(of_unit(rows, id)), HighPriceQuantile)

\* df_copy['price'] >= df_copy['high_price_threshold'], for the rows of a unit
above_threshold(unit_rows, threshold) ==
    SelectSeq(unit_rows, LAMBDA r : Le(threshold, r.price))

RECURSIVE high_price_rows(_, _)
\* df_copy[df_copy['is_high_price']] after the merge on multiunit_id
high_price_rows(rows, ids) ==
    IF ids = <<>> THEN <<>>
    ELSE above_threshold(of_unit(rows, ids[1]), high_price_threshold(rows, ids[1]))
             \o high_price_rows(rows, Tail(ids))

\* ['price'].agg(['mean', 'std', 'count']) of one group; std, a square root,
\* has no exact value and is left out
price_agg(id, key, cells) ==
    [multiunit_id |-> id, key |-> key, mean |-> mean(cells),
     count |-> Len(present(cells))]

on_day(rows, id, day) == SelectSeq(of_unit(rows, id), LAMBDA r : day_name(r.date) = day)

in_month(rows, id, month) == SelectSeq(of_unit(rows, id), LAMBDA r : month_name(r.date) = month)

\* groupby(['multiunit_id', 'day_of_week'])['price'].agg(...)
dow_analysis(rows) ==
    {price_agg(r.multiunit_id, day_name(r.date),
               prices(on_day(rows, r.multiunit_id, day_name(r.date)))) :
        r \in {rows[i] : i \in 1..Len(rows)}}

\* groupby(['multiunit_id', 'month'])['price'].agg(...)
month_analysis(rows) ==
    {price_agg(r.multiunit_id, month_name(r.date),
               prices(in_month(rows, r.multiunit_id, month_name(r.date)))) :
        r \in {rows[i] : i \in 1..Len(rows)}}

high_price_count(id, key, group) ==
    [multiunit_id |-> id, key |-> key, high_price_count |-> Len(group)]

\* df_copy[df_copy['is_high_price']].groupby(['multiunit_id', 'month']).size()
high_price_by_month(high) ==
    {high_price_count(r.multiunit_id, month_name(r.date),
                      in_month(high, r.multiunit_id, month_name(r.date))) :
        r \in {high[i] : i \in 1..Len(high)}}

\* df_copy[df_copy['is_high_price']].groupby(['multiunit_id', 'day_of_week']).size()
high_price_by_dow(high) ==
    {high_price_count(r.multiunit_id, day_name(r.date),
                      on_day(high, r.multiunit_id, day_name(r.date))) :
        r \in {high[i] : i \in 1..Len(high)}}

\* the dictionary of the four analyses; the rows of each table as a set
price_patterns(rows, high) ==
    [keys |-> {"dow_analysis", "month_analysis", "high_price_by_month",
               "high_price_by_dow"},
     dow_analysis |-> dow_analysis(rows),
     month_analysis |-> month_analysis(rows),
     high_price_by_month |-> high_price_by_month(high),
     high_price_by_dow |-> high_price_by_dow(high)]

\* PriceAnalyzer.analyze_event_patterns: works on a copy, reads date, price
\* and multiunit_id and never looks at the event column
PriceAnalyzer_analyze_event_patterns(d) ==
    IF ~(AnalysisCols \subseteq d.cols)
    THEN [status |-> "raised", value |-> EmptyFrame, arg |-> d]
    ELSE [status |-> "returned",
          value |-> price_patterns(d.rows,
                       high_price_rows(d.rows, Ascending(ids_of(d.rows)))),
          arg |-> d]

\* return {}
EmptyDict == [keys |-> {}]

\* return {'error': "No event data available"}
NoEventData == [keys |-> {"error"}, error |-> "No event data available"]

events(rows) == [i \in 1..Len(rows) |-> rows[i].event]

with_event(rows, e) == SelectSeq(rows, LAMBDA r : r.event = e)

event_values(rows) == {rows[i].event : i \in {j \in 1..Len(rows) : ~isna(rows[j].event)}}

\* df['event'].value_counts().to_dict(): NaN is not counted
event_counts(rows) == [e \in event_values(rows) |-> Len(with_event(rows, e))]

\* df.groupby('day_of_week')['event'].mean().to_dict()
events_by_day(rows) ==
    [day \in {day_name(rows[i].date) : i \in 1..Len(rows)} |->
        mean(events(SelectSeq(rows, LAMBDA r : day_name(r.date) = day)))]

\* df.groupby('month')['event'].mean().to_dict()
events_by_month(rows) ==
    [month \in {month_name(rows[i].date) : i \in 1..Len(rows)} |->
        mean(events(SelectSeq(rows, LAMBDA r : month_name(r.date) = month)))]

\* df.groupby('event')['price'].mean().to_dict()
price_by_event(rows) == [e \in event_values(rows) |-> mean(prices(with_event(rows, e)))]

\* the results dictionary; no dataset has an event_factor column
event_results(d) ==
    [keys |-> {"event_counts", "events_by_day", "events_by_month"}
                 \cup (IF "price" \in d.cols THEN {"price_by_event"} ELSE {}),
     event_counts |-> event_counts(d.rows),
     events_by_day |-> events_by_day(d.rows),
     events_by_month |-> events_by_month(d.rows),
     price_by_event |-> IF "price" \in d.cols THEN price_by_event(d.rows) ELSE <<>>]

\* df['day_of_week'] = ... and df['month'] = ... on the argument itself
with_day_and_month(d) == [d EXCEPT !.cols = @ \cup {"day_of_week", "month"}]

\* PriceProcessor.analyze_event_patterns
PriceProcessor_analyze_event_patterns(d) ==
    IF d.rows = <<>>
    THEN [status |-> "returned", value |-> EmptyDict, arg |-> d]
    ELSE IF "event" \notin d.cols
    THEN [status |-> "returned", value |-> NoEventData, arg |-> d]
    ELSE [status |-> "returned", value |-> event_results(d),
          arg |-> with_day_and_month(d)]

-----------------------------------------------------------------------------
(* The datasets the data source may hand over.                              *)

\* the most rows a fetched dataset holds
MaxRows == 3

\* Unit 1 has rows on the core dates (around the cutoff 2024-01-01 and one
\* year later) with any profile, and ordinary rows on the boundary dates of
\* the forecast window and of the past limit; unit 2 has ordinary rows only.
CoreDates ==
    {Timestamp(2023, 12, 25), Timestamp(2024, 1, 1), Timestamp(2024, 1, 8),
     Timestamp(2025, 1, 1), Timestamp(2025, 1, 8)}

BoundaryDates ==
    {Timestamp(2024, 12, 31), Timestamp(2025, 4, 21), Timestamp(2026, 3, 31)}

OtherUnitDates == {Timestamp(2023, 12, 25), Timestamp(2025, 1, 8)}

\* the factor values of a row: an ordinary night, a night with an event, and
\* a night with missing values
Profiles == {"plain", "event", "gaps"}

SourceCols == {"multiunit_id", "date", "base", "seasonality", "dow", "event", "price"}

\* the column sets the query may return: all seven columns, or no event column
ColumnSets == {SourceCols, SourceCols \ {"event"}}

source_row(id, date, profile, cols) ==
    LET v(c, x) == IF c \in cols THEN x ELSE NaN
    IN  CASE profile = "plain" ->
               [multiunit_id |-> id, date |-> date, base |-> v("base", Num(100)),
                seasonality |-> v("seasonality", Num(10)), dow |-> v("dow", Num(5)),
                event |-> v("event", Num(0)), price |-> v("price", Num(115)),
                total_price |-> NaN, is_extrapolated |-> "NaN"]
          [] profile = "event" ->
               [multiunit_id |-> id, date |-> date, base |-> v("base", Num(100)),
                seasonality |-> v("seasonality", Num(10)), dow |-> v("dow", Num(8)),
                event |-> v("event", Num(50)), price |-> v("price", Num(168)),
                total_price |-> NaN, is_extrapolated |-> "NaN"]
          [] profile = "gaps" ->
               [multiunit_id |-> id, date |-> date, base |-> NaN,
                seasonality |-> v("seasonality", Num(10)), dow |-> v("dow", Num(5)),
                event |-> NaN, price |-> NaN,
                total_price |-> NaN, is_extrapolated |-> "NaN"]

\* the rows a dataset is drawn from: <<multiunit_id, date, profile>>
Candidates ==
    ({1} \X CoreDates \X Profiles)
        \cup ({1} \X BoundaryDates \X {"plain"})
        \cup ({2} \X OtherUnitDates \X {"plain"})

RECURSIVE Reverse(_)
Reverse(s) == IF s = <<>> THEN <<>> ELSE Reverse(Tail(s)) \o <<s[1]>>

RECURSIVE SetToSeq(_)
SetToSeq(S) ==
    IF S = {} THEN <<>>
    ELSE LET x == CHOOSE y \in S : TRUE IN <<x>> \o SetToSeq(S \ {x})

RECURSIVE Selections(_)
\* the sets of k candidates with distinct (multiunit_id, date)
Selections(k) ==
    IF k = 0 THEN {{}}
    ELSE {S \cup {c} : S \in Selections(k - 1),
                       c \in Candidates} \ Selections(k - 1)

DistinctKeys(S) ==
    \A c1, c2 \in S : (c1[1] = c2[1] /\ c1[2] = c2[2]) => c1 = c2

\* A dataset handed to the core: at most MaxRows rows with distinct
\* (multiunit_id, date), in ascending or descending key order, or the empty
\* pd.DataFrame(), which has no columns either.
InputFrames ==
    LET frame(cols, S, descending) ==
            LET ascending == sort_by_id_date(SetToSeq(
                    {source_row(c[1], c[2], c[3], cols) : c \in S}))
            IN  [cols |-> cols,
                 rows |-> IF descending THEN Reverse(ascending) ELSE ascending]
    IN  {frame(cols, S, descending) :
            cols \in ColumnSets,
            S \in {T \in UNION {Selections(k) : k \in 0..MaxRows} : DistinctKeys(T)},
            descending \in BOOLEAN} \cup {EmptyFrame}

-----------------------------------------------------------------------------
(* The callers: NightlyPriceAnalysis.run calls extrapolate_prices_backward, *)
(* calculate_total_price and find_improved_matches in that order, each on   *)
(* the frame the last one returned, and then the two PriceAnalyzer          *)
(* analyses on that frame; the dashboard calls extrapolate_prices_backward, *)
(* find_improved_matches and PriceProcessor.analyze_event_patterns.         *)
(*   combined_df the frame the caller holds and passes to the next call     *)
(*   arg_before  the argument of the last call as it was before the call    *)
(*   arg_after   the same object after the call                             *)
(*   result      what the last call returned, or that it raised             *)
(*   calls       the operations called so far                               *)

NoResult == [status |-> "none", value |-> EmptyFrame]

Init ==
    /\ combined_df \in InputFrames
    /\ arg_before = EmptyFrame
    /\ arg_after = EmptyFrame
    /\ result = NoResult
    /\ calls = <<>>

Last == IF calls = <<>> THEN "" ELSE calls[Len(calls)]

\* a call made on the frame the caller holds: its argument before and after,
\* and what it returned
Call(op, call) ==
    /\ arg_before' = combined_df
    /\ arg_after' = call.arg
    /\ result' = [status |-> call.status, value |-> call.value]
    /\ calls' = Append(calls, op)

\* combined_df = self.price_processor.extrapolate_prices_backward(df)
Extrapolate ==
    /\ calls = <<>>
    /\ Call("extrapolate_prices_backward", extrapolate_prices_backward(combined_df))
    /\ combined_df' = IF result'.status = "returned" THEN result'.value
                      ELSE arg_after'

\* combined_df = self.price_processor.calculate_total_price(combined_df)
CalculateTotalPrice ==
    /\ result.status # "raised"
    /\ \/ calls = <<>>
       \/ calls = <<"calculate_total_price">>
       \/ Last = "extrapolate_prices_backward"
    /\ Call("calculate_total_price", calculate_total_price(combined_df))
    /\ combined_df' = result'.value

\* matches_df = self.price_processor.find_improved_matches(combined_df)
FindImprovedMatches ==
    /\ result.status # "raised"
    /\ calls # <<>>
    /\ calls[1] = "extrapolate_prices_backward"
    /\ Last \in {"extrapolate_prices_backward", "calculate_total_price"}
    /\ Call("find_improved_matches", find_improved_matches(combined_df))
    /\ combined_df' = arg_after'

\* event_analysis = self.price_analyzer.analyze_event_patterns(combined_df),
\* in NightlyPriceAnalysis.run after the three calls above, or on a dataset
\* as loaded
AnalyzePricePatterns ==
    /\ result.status # "raised"
    /\ \/ calls = <<>>
       \/ calls = <<"extrapolate_prices_backward", "calculate_total_price", "find_improved_matches">>
    /\ Call("PriceAnalyzer.analyze_event_patterns", PriceAnalyzer_analyze_event_patterns(combined_df))
    /\ combined_df' = arg_after'

\* seasonal_patterns = self.price_analyzer.detect_seasonal_patterns(combined_df),
\* in NightlyPriceAnalysis.run after the event analysis, or on a dataset as
\* loaded
DetectSeasonalPatterns ==
    /\ result.status # "raised"
    /\ \/ calls = <<>>
       \/ /\ Len(calls) = 4
          /\ Last = "PriceAnalyzer.analyze_event_patterns"
    /\ Call("detect_seasonal_patterns", detect_seasonal_patterns(combined_df))
    /\ combined_df' = arg_after'

\* the dashboard's event analysis step: processor.analyze_event_patterns on
\* the extrapolated data, before or after the matching step, or on a dataset
\* as loaded
AnalyzeEventPatterns ==
    /\ result.status # "raised"
    /\ \/ calls = <<>>
       \/ calls = <<"extrapolate_prices_backward">>
       \/ calls = <<"extrapolate_prices_backward", "find_improved_matches">>
    /\ Call("PriceProcessor.analyze_event_patterns", PriceProcessor_analyze_event_patterns(combined_df))
    /\ combined_df' = arg_after'

Next ==
    \/ Extrapolate
    \/ CalculateTotalPrice
    \/ FindImprovedMatches
    \/ AnalyzePricePatterns
    \/ DetectSeasonalPatterns
    \/ AnalyzeEventPatterns

Spec == Init /\ [][Next]_vars

-----------------------------------------------------------------------------
(* Properties.  Each speaks of the last call: its argument before the call  *)
(* (arg_before) and what it returned (result).                              *)

Returned(op) == Last = op /\ result.status = "returned"

\* the dates the statements name
CutoffDate == Timestamp(2024, 1, 1)

WindowStart == Timestamp(2025, 1, 1)

WindowEnd == Timestamp(2026, 3, 31)

PastBoundary == Timestamp(2025, 4, 21)

Rows(f) == {f.rows[i] : i \in 1..Len(f.rows)}

\* the rows extrapolate_prices_backward synthesized
Synthesized(f) == {r \in Rows(f) : r.is_extrapolated = "True"}

\* the dates a frame holds for a unit
DatesOf(f, id) == {r.date : r \in {x \in Rows(f) : x.multiunit_id = id}}

EarliestOf(f, id) == CHOOSE d \in DatesOf(f, id) : \A e \in DatesOf(f, id) : d <= e

\* a factor of a row, a missing value or an absent column counting as 0
FactorOrZero(f, r, c) ==
    IF c \in f.cols /\ ~isna(Cell(r, c)) THEN Cell(r, c) ELSE Num(0)

SumOfFactors(f, r) ==
    Add(Add(Add(FactorOrZero(f, r, "base"), FactorOrZero(f, r, "seasonality")),
            FactorOrZero(f, r, "dow")), FactorOrZero(f, r, "event"))

\* C1: after calculate_total_price, on every row total_price is
\* base + seasonality + dow + event, a factor that is missing (its column
\* absent, or its value missing on the row) counting as 0.
C1_TotalIsSumMissingAsZero ==
    Returned("calculate_total_price") =>
        /\ Len(result.value.rows) = Len(arg_before.rows)
        /\ \A i \in 1..Len(arg_before.rows) :
              result.value.rows[i].total_price
                  = SumOfFactors(arg_before, arg_before.rows[i])

\* C2: calculate_total_price applied to its own output yields the same
\* total_price on every row.
C2_TotalPriceIdempotent ==
    (calls = <<"calculate_total_price", "calculate_total_price">>
        /\ result.status = "returned") =>
        /\ Len(result.value.rows) = Len(arg_before.rows)
        /\ \A i \in 1..Len(arg_before.rows) :
              result.value.rows[i].total_price = arg_before.rows[i].total_price

C2_Witness ==
    /\ calls = <<"calculate_total_price", "calculate_total_price">>
    /\ result.status = "returned"
    /\ \E i \in 1..Len(result.value.rows) : ~isna(result.value.rows[i].total_price)
    /\ \E i \in 1..Len(result.value.rows) : isna(result.value.rows[i].total_price)

\* C3, as stated: no synthesized record is dated on or after the cutoff.
C3_NoneOnOrAfterCutoff ==
    Returned("extrapolate_prices_backward") =>
        \A r \in Synthesized(result.value) : r.date < CutoffDate

\* C3, amended: no synthesized record is dated before the cutoff
\* (2024-01-01); the synthesized dates start at the cutoff itself.
C3_NoneBeforeCutoff ==
    Returned("extrapolate_prices_backward") =>
        \A r \in Synthesized(result.value) : r.date >= CutoffDate

C3_Witness ==
    /\ Returned("extrapolate_prices_backward")
    /\ \E r \in Synthesized(result.value) : r.date = CutoffDate
    /\ \E r \in Synthesized(result.value) : r.date > CutoffDate

\* C4: every synthesized record of a unit is dated strictly before that
\* unit's earliest original date.
C4_BeforeOwnEarliest ==
    Returned("extrapolate_prices_backward") =>
        \A r \in Synthesized(result.value) :
            /\ DatesOf(arg_before, r.multiunit_id) # {}
            /\ r.date < EarliestOf(arg_before, r.multiunit_id)

C4_Witness ==
    /\ Returned("extrapolate_prices_backward")
    /\ \E r \in Synthesized(result.value) :
          r.date = EarliestOf(arg_before, r.multiunit_id) - 1

\* C5: a unit whose earliest observed date is at or before the cutoff gets
\* no synthesized record, whatever the other units look like.
C5_NoneForEarlyUnit ==
    Returned("extrapolate_prices_backward") =>
        \A r \in Rows(arg_before) :
            EarliestOf(arg_before, r.multiunit_id) <= CutoffDate =>
                \A x \in Synthesized(result.value) : x.multiunit_id # r.multiunit_id

C5_Witness ==
    /\ Returned("extrapolate_prices_backward")
    /\ \E r \in Rows(arg_before) : EarliestOf(arg_before, r.multiunit_id) = CutoffDate
    /\ \E r \in Rows(arg_before) : EarliestOf(arg_before, r.multiunit_id) > CutoffDate

UniqueKeys(f) ==
    \A i, j \in 1..Len(f.rows) :
        (f.rows[i].multiunit_id = f.rows[j].multiunit_id
            /\ f.rows[i].date = f.rows[j].date) => i = j

\* C6: if the input has unique (multiunit_id, date) pairs, so has the output
\* of extrapolate_prices_backward.
C6_NoDuplicateKeys ==
    (Returned("extrapolate_prices_backward") /\ UniqueKeys(arg_before)) =>
        UniqueKeys(result.value)

C6_Witness ==
    /\ Returned("extrapolate_prices_backward")
    /\ UniqueKeys(arg_before)
    /\ Len(arg_before.rows) >= 2
    /\ Cardinality(Synthesized(result.value)) >= 2

\* C7: the output of extrapolate_prices_backward holds every input row with
\* multiunit_id, date, base, seasonality, dow, event and price unchanged; an
\* original row differs at most in the is_extrapolated flag.
C7_InputRowsKept ==
    Returned("extrapolate_prices_backward") =>
        /\ arg_before.cols \subseteq result.value.cols
        /\ \A r \in Rows(arg_before) :
              \E x \in Rows(result.value) :
                  [x EXCEPT !.is_extrapolated = r.is_extrapolated] = r

C7_Witness ==
    /\ Returned("extrapolate_prices_backward")
    /\ Len(arg_before.rows) >= 2
    /\ Synthesized(result.value) # {}
    /\ \E r \in Rows(arg_before) : isna(r.price)

\* C8: when the dataset's earliest date is at or before the cutoff,
\* extrapolate_prices_backward adds no record and returns a dataset whose
\* is_extrapolated column exists and is false on every row.
C8_NoOpStillFlags ==
    (/\ Returned("extrapolate_prices_backward")
     /\ \E r \in Rows(arg_before) : r.date <= CutoffDate) =>
        /\ Len(result.value.rows) = Len(arg_before.rows)
        /\ "is_extrapolated" \in result.value.cols
        /\ \A x \in Rows(result.value) : x.is_extrapolated = "False"

\* C9: every record find_improved_matches emits is dated inside the
\* forecast window [2025-01-01, 2026-03-31].
C9_InsideWindow ==
    Returned("find_improved_matches") =>
        \A x \in Rows(result.value) : WindowStart <= x.date /\ x.date <= WindowEnd

C9_Witness ==
    /\ Returned("find_improved_matches")
    /\ \E x \in Rows(result.value) : x.date = WindowStart
    /\ \E r \in Rows(arg_before) : r.date = WindowStart - 1
    /\ \E r \in Rows(arg_before) : r.date < WindowStart - 1

\* C10: matched_from of every emitted record is the date of an input record
\* of the same unit and lies strictly before the past boundary (2025-04-21).
C10_MatchedFromPast ==
    Returned("find_improved_matches") =>
        \A x \in Rows(result.value) :
            /\ x.matched_from < PastBoundary
            /\ x.matched_from \in DatesOf(arg_before, x.multiunit_id)

C10_Witness ==
    /\ Returned("find_improved_matches")
    /\ \E x \in Rows(result.value) :
          /\ PastBoundary \in DatesOf(arg_before, x.multiunit_id)
          /\ x.matched_from < PastBoundary
    /\ \E x \in Rows(result.value) :
          \E r \in Rows(arg_before) :
              r.multiunit_id # x.multiunit_id /\ r.date = x.matched_from

\* the same month and day one year before a date
OneYearBefore(n) == DateOffsetYears(n, 0 - 1)

\* C11: in every record find_improved_matches emits, days_diff is the
\* absolute number of days between matched_from and the date one year before
\* the record's date.
C11_DaysDiffExact ==
    Returned("find_improved_matches") =>
        \A x \in Rows(result.value) :
            /\ x.days_diff >= 0
            /\ \/ x.days_diff = x.matched_from - OneYearBefore(x.date)
               \/ x.days_diff = OneYearBefore(x.date) - x.matched_from

C11_Witness ==
    /\ Returned("find_improved_matches")
    /\ \E x \in Rows(result.value) :
          x.matched_from < OneYearBefore(x.date) /\ x.days_diff = 7
    /\ \E x \in Rows(result.value) : x.days_diff = 0

\* the records of a frame find_improved_matches takes for target dates
TargetRows(f) == {r \in Rows(f) : WindowStart <= r.date /\ r.date <= WindowEnd}

\* the history of r's unit within `days` of the date one year before r
History(f, r, days) ==
    {p \in Rows(f) : /\ p.multiunit_id = r.multiunit_id
                     /\ p.date < PastBoundary
                     /\ AbsDays(p.date, OneYearBefore(r.date)) <= days}

\* the event-tier candidates of r: an event factor within 20 of r's
EventCandidates(f, r) ==
    {p \in History(f, r, 14) : Le(RAbs(Sub(p.event, r.event)), Num(20))}

\* the weekday-tier candidates of r: the weekday of the date one year
\* before r, and an event factor missing or at most 10
WeekdayCandidates(f, r, days) ==
    {p \in History(f, r, days) :
        /\ dayofweek(p.date) = dayofweek(OneYearBefore(r.date))
        /\ (isna(p.event) \/ Le(p.event, Num(10)))}

\* the records emitted for the target record r
EmittedFor(r) ==
    {x \in Rows(result.value) : x.multiunit_id = r.multiunit_id /\ x.date = r.date}

\* C12: for a target record whose event factor exceeds 1, with both an
\* event-tier candidate and a same-weekday no-event candidate within 14 days
\* of its target, the record emitted has match_reason "event_match" and
\* matched_from is the date of an event-tier candidate.
C12_EventTierFirst ==
    (Returned("find_improved_matches") /\ "event" \in arg_before.cols) =>
        \A r \in TargetRows(arg_before) :
            (/\ Gt(r.event, Num(1))
             /\ EventCandidates(arg_before, r) # {}
             /\ WeekdayCandidates(arg_before, r, 14) # {}) =>
                /\ EmittedFor(r) # {}
                /\ \A x \in EmittedFor(r) :
                      /\ x.match_reason = "event_match"
                      /\ \E p \in EventCandidates(arg_before, r) :
                            p.date = x.matched_from

\* the weekday candidate lies on the target itself, the event candidate a
\* week away
C12_Witness ==
    /\ Returned("find_improved_matches")
    /\ "event" \in arg_before.cols
    /\ \E r \in TargetRows(arg_before) :
          /\ Gt(r.event, Num(1))
          /\ \E p \in WeekdayCandidates(arg_before, r, 14) :
                p.date = OneYearBefore(r.date)
          /\ \E x \in EmittedFor(r) :
                x.match_reason = "event_match" /\ x.days_diff = 7

\* C13: on a dataset without an event column find_improved_matches returns
\* without error, and every record it emits was matched by a weekday tier or
\* by the closest-date fallback, never by the event tier.
C13_NoEventColumnFallsThrough ==
    (Last = "find_improved_matches" /\ "event" \notin arg_before.cols) =>
        /\ result.status = "returned"
        /\ \A x \in Rows(result.value) :
              x.match_reason \in
                  {"weekday_match", "weekday_match_no_event", "closest_date"}

\* the units of a frame with no record strictly before the past boundary
UnitsWithoutHistory(f) ==
    {r.multiunit_id : r \in Rows(f)}
        \ {r.multiunit_id : r \in {x \in Rows(f) : x.date < PastBoundary}}

\* a frame with the records of unit u left out
WithoutUnit(f, u) ==
    [cols |-> f.cols, rows |-> SelectSeq(f.rows, LAMBDA r : r.multiunit_id # u)]

\* what find_improved_matches makes of a frame: returned or raised, and the
\* frame returned
OutcomeOfMatching(f) ==
    [status |-> find_improved_matches(f).status,
     value |-> find_improved_matches(f).value]

\* C14: a unit with no record strictly before the past boundary gets no
\* record in the output of find_improved_matches and changes nothing else:
\* the call ends as it does on the dataset without that unit, so the unit
\* raises no error and the records of the other units are still emitted;
\* with an event column present the call returns.
C14_UnitWithoutHistorySkipped ==
    Last = "find_improved_matches" =>
        \A u \in UnitsWithoutHistory(arg_before) :
            /\ \A x \in Rows(result.value) : x.multiunit_id # u
            /\ result = OutcomeOfMatching(WithoutUnit(arg_before, u))
            /\ "event" \in arg_before.cols => result.status = "returned"

\* a unit without history has a target date, and another unit is matched
C14_Witness ==
    /\ Returned("find_improved_matches")
    /\ \E u \in UnitsWithoutHistory(arg_before) :
          /\ \E r \in TargetRows(arg_before) : r.multiunit_id = u
          /\ \E x \in Rows(result.value) : x.multiunit_id # u

\* a record of the ordinary night of the statement: base 100, seasonality
\* 10, dow 5, no event
OrdinaryNight(r) ==
    /\ r.base = Num(100) /\ r.seasonality = Num(10)
    /\ r.dow = Num(5) /\ r.event = Num(0)

\* a dataset of unit 1 alone, holding ordinary nights of January 2025
January2025Nights(f) ==
    /\ f.rows # <<>>
    /\ FactorCols \subseteq f.cols
    /\ \A r \in Rows(f) :
          /\ r.multiunit_id = 1
          /\ OrdinaryNight(r)
          /\ Timestamp(2025, 1, 1) <= r.date /\ r.date <= Timestamp(2025, 1, 31)

\* C15: a synthesized record with base, seasonality, dow and event all
\* populated has price (base + seasonality + dow + event) * 0.97; for unit 1
\* with ordinary nights in January 2025 the call returns and the same dates
\* of January 2024 are synthesized with price 111.55.
C15_PriceFromFactors ==
    Last = "extrapolate_prices_backward" =>
        /\ \A x \in Synthesized(result.value) :
              (~isna(x.base) /\ ~isna(x.seasonality) /\ ~isna(x.dow) /\ ~isna(x.event))
                  => x.price = Mul(Add(Add(Add(x.base, x.seasonality), x.dow), x.event),
                                   Rat(97, 100))
        /\ January2025Nights(arg_before) =>
              /\ result.status = "returned"
              /\ \A r \in Rows(arg_before) :
                    \E x \in Synthesized(result.value) :
                        /\ x.multiunit_id = 1
                        /\ x.date = OneYearBefore(r.date)
                        /\ x.price = Rat(11155, 100)

\* C16: a missing date whose price can be resolved neither from four
\* populated factors nor from the price of the nearest day-of-week match is
\* dropped, so every synthesized record in the output of
\* extrapolate_prices_backward carries a price that is not missing.
C16_SynthesizedHavePrice ==
    Returned("extrapolate_prices_backward") =>
        \A x \in Synthesized(result.value) :
            "price" \in result.value.cols /\ ~isna(x.price)

\* C17: a failure while synthesizing one missing date stays local to that
\* date: extrapolate_prices_backward never raises, whatever the dataset.
C17_ExtrapolationNeverRaises ==
    Last = "extrapolate_prices_backward" => result.status # "raised"

\* C18: no operation alters the dataset passed to it: once
\* extrapolate_prices_backward, calculate_total_price or
\* find_improved_matches has returned, its argument has the columns and the
\* rows it had before the call.
C18_InputUnaltered ==
    (Last # "" /\ result.status = "returned") => arg_after = arg_before

\* C19: on an empty dataset every operation returns an empty result without
\* raising, and the result of calculate_total_price has the columns of the
\* input and total_price.
C19_EmptyInEmptyOut ==
    (Last # "" /\ arg_before.rows = <<>>) =>
        /\ result.status = "returned"
        /\ result.value.rows = <<>>
        /\ Last = "calculate_total_price" =>
              result.value.cols = arg_before.cols \cup {"total_price"}

\* the units of a frame
UnitsOf(f) == {r.multiunit_id : r \in Rows(f)}

\* the orders the units of a frame can be processed in (there are at most
\* two units)
ProcessingOrders(f) == {Ascending(UnitsOf(f)), Reverse(Ascending(UnitsOf(f)))}

\* extrapolate_prices_backward past its early return, the units processed in
\* the order ids
ExtrapolatedInOrder(f, ids) ==
    extrapolation_result(f,
        process_groups([data |-> <<>>, closest_date |-> Unbound, raised |-> FALSE],
                       f, ids))

\* find_improved_matches past its early returns, the units processed in the
\* order ids
MatchedInOrder(f, ids) ==
    matches_result(f,
        match_groups([data |-> <<>>, raised |-> FALSE], f.cols,
                     target_dates(f.rows), past_data(f.rows), ids))

\* two calls end alike: both raise, or both return the same set of records
SameOutcome(a, b) ==
    a.status = b.status /\ Rows(a.value) = Rows(b.value)

\* C20: whatever order the units are processed in, extrapolate_prices_backward
\* and find_improved_matches end the same way on the same dataset, with the
\* same set of records.
C20_OrderIndependent ==
    /\ (Last = "extrapolate_prices_backward" /\ "date" \in arg_before.cols
            /\ ~starts_on_or_before_target(arg_before.rows)) =>
          \A ids \in ProcessingOrders(arg_before) :
              SameOutcome(ExtrapolatedInOrder(arg_before, ids), result)
    /\ (Last = "find_improved_matches"
            /\ target_dates(arg_before.rows) # <<>>
            /\ past_data(arg_before.rows) # <<>>) =>
          \A ids \in ProcessingOrders(arg_before) :
              SameOutcome(MatchedInOrder(arg_before, ids), result)

\* the synthesized records of unit u dated d
SynthesizedOn(f, u, d) ==
    {x \in Synthesized(f) : x.multiunit_id = u /\ x.date = d}

\* a record with all four factors populated
FullyPopulated(f, r) ==
    /\ FactorCols \subseteq f.cols
    /\ ~isna(r.base) /\ ~isna(r.seasonality) /\ ~isna(r.dow) /\ ~isna(r.event)

\* C21: for each unit whose earliest date is after the cutoff, every day from
\* the cutoff to the day before that earliest date whose price can be
\* resolved (here: the unit has a fully populated record exactly one year
\* later) gets one synthesized record, also when another unit of the dataset
\* has data at or before the cutoff.
C21_EveryMissingDaySynthesized ==
    Returned("extrapolate_prices_backward") =>
        \A r \in Rows(arg_before) :
            (/\ FullyPopulated(arg_before, r)
             /\ EarliestOf(arg_before, r.multiunit_id) > CutoffDate
             /\ CutoffDate <= OneYearBefore(r.date)
             /\ OneYearBefore(r.date) < EarliestOf(arg_before, r.multiunit_id)) =>
                Cardinality(SynthesizedOn(result.value, r.multiunit_id,
                                          OneYearBefore(r.date))) = 1

\* the same month and day one year after a date
OneYearAfter(n) == DateOffsetYears(n, 1)

\* the records of unit u dated d
RecordsOn(f, u, d) == {r \in Rows(f) : r.multiunit_id = u /\ r.date = d}

\* C22: a synthesized record takes event, seasonality and base verbatim from
\* its unit's record dated exactly one year later; when the unit has no such
\* record, none of the three is set.
C22_FactorsCopiedVerbatim ==
    Returned("extrapolate_prices_backward") =>
        \A x \in Synthesized(result.value) :
            /\ \A r \in RecordsOn(arg_before, x.multiunit_id, OneYearAfter(x.date)) :
                  x.event = r.event /\ x.seasonality = r.seasonality /\ x.base = r.base
            /\ RecordsOn(arg_before, x.multiunit_id, OneYearAfter(x.date)) = {} =>
                  isna(x.event) /\ isna(x.seasonality) /\ isna(x.base)

\* one synthesized record copies an event of 50, another has no record one
\* year later
C22_Witness ==
    /\ Returned("extrapolate_prices_backward")
    /\ \E x \in Synthesized(result.value) :
          /\ x.event = Num(50) /\ x.base = Num(100)
          /\ RecordsOn(arg_before, x.multiunit_id, OneYearAfter(x.date)) # {}
    /\ \E x \in Synthesized(result.value) :
          RecordsOn(arg_before, x.multiunit_id, OneYearAfter(x.date)) = {}

\* the dow values of unit u's records on d's weekday, at most 14 days from d
NeighbourDows(f, u, d) ==
    LET near == SelectSeq(f.rows, LAMBDA r :
                    /\ r.multiunit_id = u
                    /\ dayofweek(r.date) = dayofweek(d)
                    /\ AbsDays(r.date, d) <= 14)
    IN  [i \in 1..Len(near) |-> near[i].dow]

\* the arithmetic mean of a non-empty sequence of values
ArithmeticMean(values) == Mul(SumCells(values), Rat(1, Len(values)))

\* C23: the dow of a synthesized record comes from its unit's own records
\* within 14 days of the date one year later and on that date's weekday: their
\* arithmetic mean when there are two or more, the single record's dow when
\* there is one.
C23_DowFromWeekdayNeighbours ==
    Returned("extrapolate_prices_backward") =>
        \A x \in Synthesized(result.value) :
            /\ NeighbourDows(arg_before, x.multiunit_id, OneYearAfter(x.date)) # <<>>
            /\ x.dow = ArithmeticMean(
                    NeighbourDows(arg_before, x.multiunit_id, OneYearAfter(x.date)))

\* one record averages a dow of 5 and a dow of 8, another has one neighbour
C23_Witness ==
    /\ Returned("extrapolate_prices_backward")
    /\ \E x \in Synthesized(result.value) : x.dow = Rat(13, 2)
    /\ \E x \in Synthesized(result.value) :
          Len(NeighbourDows(arg_before, x.multiunit_id, OneYearAfter(x.date))) = 1

\* the candidates of each tier for the target record r
TierCandidates(f, r, tier) ==
    CASE tier = "event_match" ->
            IF Gt(r.event, Num(1)) THEN EventCandidates(f, r) ELSE {}
      [] tier = "weekday_match_no_event" -> WeekdayCandidates(f, r, 14)
      [] tier = "weekday_match" -> WeekdayCandidates(f, r, 21)
      [] tier = "closest_date" -> History(f, r, 14)

\* the tiers in the order they are evaluated
TierOrder == <<"event_match", "weekday_match_no_event", "weekday_match", "closest_date">>

\* the position in TierOrder of the first tier with a candidate, 0 if none
FirstTier(f, r) ==
    IF \A k \in 1..Len(TierOrder) : TierCandidates(f, r, TierOrder[k]) = {} THEN 0
    ELSE CHOOSE k \in 1..Len(TierOrder) :
            /\ TierCandidates(f, r, TierOrder[k]) # {}
            /\ \A j \in 1..(k - 1) : TierCandidates(f, r, TierOrder[j]) = {}

\* where a record stands in its frame
PositionIn(f, p) == CHOOSE i \in 1..Len(f.rows) : f.rows[i] = p

\* p is at the least distance from r's target among S, and the first of the
\* frame among those at that distance
NearestFirst(f, r, S, p) ==
    /\ p \in S
    /\ \A q \in S :
          \/ AbsDays(p.date, OneYearBefore(r.date)) < AbsDays(q.date, OneYearBefore(r.date))
          \/ /\ AbsDays(p.date, OneYearBefore(r.date)) = AbsDays(q.date, OneYearBefore(r.date))
             /\ PositionIn(f, p) <= PositionIn(f, q)

\* C24: the tiers are evaluated in the order event, weekday with no event
\* (14 days), weekday (21 days), closest date: the match_reason of an emitted
\* record names the first tier with a candidate, and matched_from is the
\* candidate of that tier nearest to the target, the first encountered on a
\* tie.
C24_FirstTierNearestCandidate ==
    Returned("find_improved_matches") =>
        \A r \in TargetRows(arg_before) :
            \A x \in EmittedFor(r) :
                /\ FirstTier(arg_before, r) # 0
                /\ x.match_reason = TierOrder[FirstTier(arg_before, r)]
                /\ \E p \in TierCandidates(arg_before, r, x.match_reason) :
                      /\ p.date = x.matched_from
                      /\ NearestFirst(arg_before, r,
                            TierCandidates(arg_before, r, x.match_reason), p)

\* two candidates at the same distance, the later date standing first
C24_Witness ==
    /\ Returned("find_improved_matches")
    /\ \E r \in TargetRows(arg_before) :
          \E x \in EmittedFor(r) :
              \E q \in TierCandidates(arg_before, r, x.match_reason) :
                  /\ q.date < x.matched_from
                  /\ AbsDays(q.date, OneYearBefore(r.date)) = x.days_diff

\* the units of a frame with a record strictly before the past boundary
UnitsWithHistory(f) == UnitsOf(f) \ UnitsWithoutHistory(f)

\* the record of unit u on the date t, or the bare date when the frame holds
\* no record of u on t
TargetRecord(f, u, t) ==
    IF RecordsOn(f, u, t) # {} THEN CHOOSE r \in RecordsOn(f, u, t) : TRUE
    ELSE [BlankRow EXCEPT !.multiunit_id = u, !.date = t]

\* C25: for every unit with history and every calendar date t of the
\* forecast window, find_improved_matches emits exactly one record for
\* (unit, t) when some tier has a candidate and none when no tier has, and
\* raises no error.
C25_OneRecordPerWindowDate ==
    Last = "find_improved_matches" =>
        /\ result.status = "returned"
        /\ \A u \in UnitsWithHistory(arg_before) :
              \A t \in WindowStart..WindowEnd :
                  Cardinality(EmittedFor(TargetRecord(arg_before, u, t)))
                      = IF FirstTier(arg_before, TargetRecord(arg_before, u, t)) # 0
                        THEN 1 ELSE 0

\* the record x was matched from
MatchOf(f, x) == RecordsOn(f, x.multiunit_id, x.matched_from)

\* C26: an emitted record carries the price of its match times 1.03 when
\* the match has a price, each of base, seasonality, dow and event as the
\* match has it when the match has a value and not at all otherwise, and
\* is_improved_match true.
C26_ValuesFromMatch ==
    Returned("find_improved_matches") =>
        /\ \A x \in Rows(result.value) :
              /\ x.is_improved_match
              /\ MatchOf(arg_before, x) # {}
              /\ \A m \in MatchOf(arg_before, x) :
                    /\ x.price = Mul(m.price, Rat(103, 100))
                    /\ \A c \in FactorCols : Cell(x, c) = Cell(m, c)
        /\ \A c \in FactorCols :
              c \in result.value.cols <=>
                  \E x \in Rows(result.value) : ~isna(Cell(x, c))

\* a match with a price and no base
C26_Witness ==
    /\ Returned("find_improved_matches")
    /\ \E x \in Rows(result.value) :
          /\ x.price = Rat(11155 * 103, 10000)
          /\ isna(x.base)
          /\ ~isna(x.dow)

\* the records of unit u, and those of them dated in month m
RecordsOf(f, u) == {r \in Rows(f) : r.multiunit_id = u}

RecordsIn(f, u, m) == {r \in RecordsOf(f, u) : MonthOf(r.date) = m}

RECURSIVE PriceTotal(_)
PriceTotal(S) ==
    IF S = {} THEN Num(0)
    ELSE LET r == CHOOSE x \in S : TRUE IN Add(r.price, PriceTotal(S \ {r}))

Priced(S) == {r \in S : ~isna(r.price)}

\* the mean price of a set of records, over those that have a price
MeanPrice(S) ==
    IF Priced(S) = {} THEN NaN
    ELSE Div(PriceTotal(Priced(S)), Num(Cardinality(Priced(S))))

PatternsFor(f, u, m) == {x \in Rows(f) : x.multiunit_id = u /\ x.month = m}

\* C27: detect_seasonal_patterns returns one row for each (unit, month) in
\* which the unit has records and none for any other; its seasonal_index is
\* the mean price of the unit's records of that month divided by the mean
\* price of all the unit's records, is_peak_season is true exactly when the
\* index is above 1.10 and is_low_season exactly when it is below 0.90.
C27_SeasonalIndex ==
    Returned("detect_seasonal_patterns") =>
        \A u \in UnitsOf(arg_before) \cup UnitsOf(result.value) : \A m \in 1..12 :
            IF RecordsIn(arg_before, u, m) = {}
            THEN PatternsFor(result.value, u, m) = {}
            ELSE /\ Cardinality(PatternsFor(result.value, u, m)) = 1
                 /\ \A x \in PatternsFor(result.value, u, m) :
                       /\ x.seasonal_index =
                              Div(MeanPrice(RecordsIn(arg_before, u, m)),
                                  MeanPrice(RecordsOf(arg_before, u)))
                       /\ x.is_peak_season <=> Gt(x.seasonal_index, Rat(110, 100))
                       /\ x.is_low_season <=> Gt(Rat(90, 100), x.seasonal_index)

\* a unit with a peak month and a low month
C27_Witness ==
    /\ Returned("detect_seasonal_patterns")
    /\ \E x, y \in Rows(result.value) :
          /\ x.multiunit_id = y.multiunit_id
          /\ x.is_peak_season
          /\ y.is_low_season

EventAnalyses ==
    {"PriceProcessor.analyze_event_patterns", "PriceAnalyzer.analyze_event_patterns"}

\* C28: event pattern analysis of a dataset without an event column returns
\* the "no event data" marker and does not fail, in PriceProcessor and in
\* the PriceAnalyzer analysis that NightlyPriceAnalysis.run calls.
C28_NoEventDataMarker ==
    (Last \in EventAnalyses /\ "event" \notin arg_before.cols) =>
        /\ result.status = "returned"
        /\ result.value.keys = {"error"}
        /\ result.value.error = "No event data available"

\* C29: in every record find_improved_matches emits, matched_from lies at
\* least 344 days before the record's own date: no record is matched to
\* itself, also when its own date lies before the past boundary.
C29_MatchedWellBefore ==
    Returned("find_improved_matches") =>
        \A x \in Rows(result.value) : x.date - x.matched_from >= 344

\* a record dated before the past boundary, matched to a date later than the
\* one a year before it
C29_Witness ==
    /\ Returned("find_improved_matches")
    /\ \E x \in Rows(result.value) :
          /\ x.date < PastBoundary
          /\ x.date \in DatesOf(arg_before, x.multiunit_id)
          /\ x.matched_from > OneYearBefore(x.date)

\* the frame cut down to what unit u holds at most 14 days from the date one
\* year after d: the records the candidates for the missing date d come from
OwnCandidates(f, u, d) ==
    [cols |-> f.cols,
     rows |-> SelectSeq(f.rows, LAMBDA r :
                  r.multiunit_id = u /\ AbsDays(r.date, OneYearAfter(d)) <= 14)]

\* C30: a record extrapolate_prices_backward synthesizes for a unit and a
\* missing date rests on nothing but that unit's records around the date one
\* year later: on the dataset cut down to those records the call returns and
\* synthesizes the same record, so the records of other units and of dates
\* processed earlier have no part in it.
C30_OnlyOwnCandidates ==
    Returned("extrapolate_prices_backward") =>
        \A x \in Synthesized(result.value) :
            /\ extrapolate_prices_backward(
                   OwnCandidates(arg_before, x.multiunit_id, x.date)).status = "returned"
            /\ x \in Rows(extrapolate_prices_backward(
                   OwnCandidates(arg_before, x.multiunit_id, x.date)).value)

====
